---- MODULE Spec2Model ----
(***************************************************************************)
(* Model of imagen.transferfn.sheetTF.Convolve: a transfer function that   *)
(* convolves a 2-D array, in place, with a kernel rasterized from a        *)
(* pattern over a sheet coordinate system.                                 *)
(*                                                                         *)
(* Array elements are exact rationals [n, d] (d > 0), extended with the    *)
(* three non-finite float values (d = 0): the model follows the real       *)
(* arithmetic of the code and leaves floating-point round-off aside.       *)
(***************************************************************************)
EXTENDS Integers, Sequences, FiniteSets, TLC

\* Largest number of rows / columns of the arrays the call is checked on
\* (the smallest is 2).
MaxDim == 4
\* Largest height of a kernel tap.
MaxVal == 2
\* Largest number of calls of the operator in one behaviour.
MaxCalls == 2

Dims == 2..MaxDim

\* The sheet densities of the life-cycle specification: an even and an odd
\* number of rows / columns.
SheetDims == {2, 3}

(***************************************************************************)
(* Float values                                                            *)
(***************************************************************************)
Abs(i) == IF i < 0 THEN -i ELSE i

RECURSIVE GCD(_, _)
GCD(a, b) == IF b = 0 THEN a ELSE GCD(b, a % b)

\* The rational n/d, d > 0, in lowest terms.
Rat(n, d) ==
    IF d = 1 THEN [n |-> n, d |-> 1]
    ELSE LET g == GCD(Abs(n), d) IN [n |-> n \div g, d |-> d \div g]

Zero == [n |-> 0, d |-> 1]
One == [n |-> 1, d |-> 1]
PosInf == [n |-> 1, d |-> 0]
NegInf == [n |-> -1, d |-> 0]
NaN == [n |-> 0, d |-> 0]

IsFinite(v) == v.d > 0

\* IEEE addition on the extended values.
FAdd(a, b) ==
    IF IsFinite(a) /\ IsFinite(b) THEN Rat(a.n * b.d + b.n * a.d, a.d * b.d)
    ELSE IF a = NaN \/ b = NaN THEN NaN
    ELSE IF IsFinite(a) THEN b
    ELSE IF IsFinite(b) THEN a
    ELSE IF a = b THEN a ELSE NaN

\* Product of two finite values.
FMul(a, b) == Rat(a.n * b.n, a.d * b.d)

\* numpy true division by a finite float: x / 0.0 is inf, -inf or nan and
\* raises nothing (a RuntimeWarning only).
FDiv(a, s) ==
    IF ~IsFinite(a) THEN (IF a = NaN \/ s.n = 0 THEN NaN
                          ELSE IF s.n > 0 THEN a ELSE [n |-> -a.n, d |-> 0])
    ELSE IF s.n = 0 THEN (IF a.n > 0 THEN PosInf ELSE IF a.n < 0 THEN NegInf ELSE NaN)
    ELSE IF s.n > 0 THEN Rat(a.n * s.d, a.d * s.n)
    ELSE Rat(-(a.n * s.d), a.d * (-s.n))

(***************************************************************************)
(* Arrays: [rows, cols, data], data in row-major order: the element at     *)
(* (r, c), indices from 0, is data[r * cols + c + 1].                      *)
(***************************************************************************)
Idx(R, C) == (0..(R - 1)) \X (0..(C - 1))

\* The row and the column of the k-th element of an array of C columns.
RowOf(k, C) == (k - 1) \div C
ColOf(k, C) == (k - 1) % C

\* The array of shape (R, C) holding the elements of the sequence data.
MkArray(R, C, data) == [rows |-> R, cols |-> C, data |-> data]

\* a[r, c]
At(a, r, c) == a.data[r * a.cols + c + 1]

shape(a) == <<a.rows, a.cols>>

AllFinite(a) == \A k \in DOMAIN a.data : IsFinite(a.data[k])

RECURSIVE SumUpTo(_, _)
SumUpTo(a, k) ==
    IF k = 0 THEN Zero ELSE FAdd(SumUpTo(a, k - 1), a.data[k])

\* ndarray.sum(): the sum of all elements.
ArraySum(a) == SumUpTo(a, a.rows * a.cols)

\* The sum over the cells m in S of x (row-major positions) of
\* x[i, j] * k[r - i, c - j], indices modulo the shape.
RECURSIVE ConvSum(_, _, _, _, _)
ConvSum(x, k, r, c, S) ==
    IF S = {} THEN Zero
    ELSE LET m == CHOOSE q \in S : TRUE
             i == RowOf(m, x.cols)
             j == ColOf(m, x.cols)
         IN  FAdd(FMul(x.data[m], At(k, (r - i) % x.rows, (c - j) % x.cols)),
                  ConvSum(x, k, r, c, S \ {m}))

\* Element (r, c) of np.fft.ifft2(np.fft.fft2(x) * np.fft.fft2(k)).real for
\* finite arrays of one shape: by the convolution theorem, of the circular
\* convolution of x with k (the zero cells of x add nothing).
CircConvAt(x, k, r, c) ==
    ConvSum(x, k, r, c, {m \in DOMAIN x.data : x.data[m].n # 0})

\* np.roll(a, shift, axis) along an axis of length n: the index whose
\* element lands at index i, out[i] = a[(i - shift) mod n].
RollFrom(i, shift, n) == (i - shift) % n

(***************************************************************************)
(* Python objects                                                          *)
(***************************************************************************)
\* Python's None.
None == [type |-> "NoneType"]

\* hasattr(obj, name): the instance has an attribute of that name.
HasAttr(obj, name) == name \in DOMAIN obj

\* init_keys = param.List(default=['SCS'], constant=True)
init_keys == {"SCS"}

FieldRefs == {"a", "b"}

(***************************************************************************)
(* Convolve.__call__                                                       *)
(***************************************************************************)
\* x.fill(v): every element of the array object at ref becomes v.
ndarray_fill(heap, ref, v) ==
    [heap EXCEPT ![ref].data = [i \in DOMAIN @ |-> v]]

\* x += a: element-wise addition into the array object at ref.
ndarray_iadd(heap, ref, a) ==
    [heap EXCEPT ![ref].data = [i \in DOMAIN @ |-> FAdd(@[i], a.data[i])]]

\* Mutant: x = convolved, which rebinds the local name only.
WriteBack_rebind(heap, ref, convolved) == heap

\* x.fill(0.0); x += convolved
WriteBack(heap, ref, convolved) ==
    ndarray_iadd(ndarray_fill(heap, ref, Zero), ref, convolved)

\* Mutant: the half extent rounded up instead of down.
CenterShift_ceil(n) == -((n + 1) \div 2)

\* The shift that brings the kernel's centre back to index 0: -(n // 2).
CenterShift(n) == -(n \div 2)

\* Mutant: the normalization left out (a division by 1).
KernelMass_unnormalized(kernel) == One

\* float(self.kernel.sum())
KernelMass(kernel) == ArraySum(kernel)

\* Mutant: the shape unpacked as (columns, rows).
RolledAt_swapped(kernel, x, r, c) ==
    LET k_cols == kernel.rows
        k_rows == kernel.cols
    IN  CircConvAt(x, kernel,
                   RollFrom(r, CenterShift(k_rows), x.rows),
                   RollFrom(c, CenterShift(k_cols), x.cols))

\* Element (r, c) of `rolled`: convolved_raw, rolled by -(k_cols // 2)
\* along the columns and by -(k_rows // 2) along the rows.
RolledAt(kernel, x, r, c) ==
    LET k_rows == kernel.rows
        k_cols == kernel.cols
    IN  CircConvAt(x, kernel,
                   RollFrom(r, CenterShift(k_rows), x.rows),
                   RollFrom(c, CenterShift(k_cols), x.cols))

\* The array `convolved` of __call__ for a field x of the kernel's shape:
\* rolled / float(self.kernel.sum()). A non-finite element of x makes
\* every element of the transforms, and so of the result, nan.
Convolved(kernel, x) ==
    LET mass == KernelMass(kernel)
        finite == AllFinite(x) /\ AllFinite(kernel)
    IN  MkArray(x.rows, x.cols,
                [m \in DOMAIN x.data |->
                    IF finite
                    THEN FDiv(RolledAt(kernel, x, RowOf(m, x.cols), ColOf(m, x.cols)),
                              mass)
                    ELSE NaN])

\* Mutant: a call on an instance without a kernel returns without doing
\* anything.
ConvolveCall_skip(obj, heap, ref) ==
    IF obj.kernel = None
    THEN [raised |-> "none", heap |-> heap, self |-> obj]
    ELSE IF shape(obj.kernel) # shape(heap[ref])
    THEN [raised |-> "ValueError", heap |-> heap, self |-> obj]
    ELSE [raised |-> "none",
          heap |-> WriteBack(heap, ref, Convolved(obj.kernel, heap[ref])),
          self |-> obj]

\* Mutant: the kernel is normalized in place on the first use,
\* self.kernel /= self.kernel.sum().
ConvolveCall_normalizes(obj, heap, ref) ==
    IF obj.kernel = None
    THEN [raised |-> "FFTError", heap |-> heap, self |-> obj]
    ELSE IF shape(obj.kernel) # shape(heap[ref])
    THEN [raised |-> "ValueError", heap |-> heap, self |-> obj]
    ELSE [raised |-> "none",
          heap |-> WriteBack(heap, ref, Convolved(obj.kernel, heap[ref])),
          self |-> [obj EXCEPT !.kernel =
                       MkArray(@.rows, @.cols,
                               [m \in DOMAIN @.data |->
                                   FDiv(@.data[m], KernelMass(obj.kernel))])]]

\* self(x) for the array object at ref: the exception raised ("none" when
\* the call returns), the heap of arrays and the instance after the call.
\* Arrays here have at least two rows and two columns, so arrays of
\* different shapes never broadcast.
ConvolveCall(obj, heap, ref) ==
    IF ~HasAttr(obj, "kernel")
    THEN [raised |-> "NotInitialized", heap |-> heap, self |-> obj]
    ELSE IF obj.kernel = None
    THEN [raised |-> "FFTError", heap |-> heap, self |-> obj]
    ELSE IF shape(obj.kernel) # shape(heap[ref])
    THEN [raised |-> "ValueError", heap |-> heap, self |-> obj]
    ELSE [raised |-> "none",
          heap |-> WriteBack(heap, ref, Convolved(obj.kernel, heap[ref])),
          self |-> obj]

(***************************************************************************)
(* Patterns and Convolve.initialize                                        *)
(***************************************************************************)
\* The pattern families a kernel specification is drawn from.
Gens == {"blur", "edge"}

\* The value a pattern has at the pixel (dr, dc) away from the centre of
\* the sheet: an off-centre blur of mass 4, and an edge detector of mass 0.
Weights(gen, dr, dc) ==
    IF gen = "blur"
    THEN (IF dr = 0 /\ dc = 0 THEN 2
          ELSE IF (dr = 0 /\ dc = -1) \/ (dr = -1 /\ dc = 0) THEN 1 ELSE 0)
    ELSE (IF dr = 0 /\ dc = 0 THEN 1
          ELSE IF dr = 0 /\ dc = -1 THEN -1 ELSE 0)

\* Composite(generators=[Constant(scale=0, ...), pattern], bounds=scs.bounds,
\*           xdensity=scs.xdensity, ydensity=scs.ydensity)()
\* over the unit sheet: ydensity rows and xdensity columns, the pattern
\* centred at (rows // 2, cols // 2) on a background of zeros.
Composite(pattern, scs) ==
    MkArray(scs.ydensity, scs.xdensity,
            [m \in 1..(scs.ydensity * scs.xdensity) |->
                [n |-> Weights(pattern.gen,
                               RowOf(m, scs.xdensity) - scs.ydensity \div 2,
                               ColOf(m, scs.xdensity) - scs.xdensity \div 2),
                 d |-> 1]])

\* Mutant: no copy, the same object under another name.
DeepCopy_alias(heap, ref) == [heap |-> heap, ref |-> ref]

\* copy.deepcopy(heap[ref]): a new object, equal to the original, at a new
\* reference.
DeepCopy(heap, ref) ==
    [heap |-> [r \in DOMAIN heap \cup {"copy"} |->
                  IF r = "copy" THEN heap[ref] ELSE heap[r]],
     ref |-> "copy"]

\* pattern.set_matrix_dimensions(bounds, xdensity, ydensity) on the object
\* at ref.
set_matrix_dimensions(heap, ref, bounds, xdensity, ydensity) ==
    [heap EXCEPT ![ref].bounds = bounds,
                 ![ref].xdensity = xdensity,
                 ![ref].ydensity = ydensity]

\* TransferFn.initialize(**kwargs): every init key must be supplied.
TransferFn_initialize(obj, kwargs) ==
    IF init_keys \subseteq DOMAIN kwargs THEN "none" ELSE "Exception"

\* The objects still referenced when initialize returns.
Live(heap) == [r \in {"p0"} |-> heap[r]]

\* Mutant: the kernel is cleared on entry, self.kernel = None, before the
\* arguments are looked at.
ConvolveInitialize_reset(obj, heap, kwargs) ==
    LET cleared == [obj EXCEPT !.kernel = None]
    IN  IF TransferFn_initialize(obj, kwargs) # "none"
        THEN [raised |-> "Exception", self |-> cleared, patterns |-> heap]
        ELSE LET scs == kwargs["SCS"]
                 cp == DeepCopy(heap, obj.kernel_pattern)
             IN  IF ~(HasAttr(scs, "xdensity") /\ HasAttr(scs, "ydensity"))
                 THEN [raised |-> "AttributeError", self |-> cleared,
                       patterns |-> Live(cp.heap)]
                 ELSE LET h == set_matrix_dimensions(
                                   cp.heap, cp.ref,
                                   cp.heap[obj.kernel_pattern].bounds,
                                   scs.xdensity, scs.ydensity)
                      IN  [raised |-> "none",
                           self |-> [obj EXCEPT !.kernel = Composite(h[cp.ref], scs)],
                           patterns |-> Live(h)]

\* self.initialize(**kwargs): the exception raised ("none" when the call
\* returns), the instance and the heap of patterns after the call.
ConvolveInitialize(obj, heap, kwargs) ==
    IF TransferFn_initialize(obj, kwargs) # "none"
    THEN [raised |-> "Exception", self |-> obj, patterns |-> heap]
    ELSE IF "SCS" \notin DOMAIN kwargs
    THEN [raised |-> "KeyError", self |-> obj, patterns |-> heap]
    ELSE LET scs == kwargs["SCS"]
             cp == DeepCopy(heap, obj.kernel_pattern)
         IN  IF ~(HasAttr(scs, "xdensity") /\ HasAttr(scs, "ydensity"))
             THEN [raised |-> "AttributeError", self |-> obj,
                   patterns |-> Live(cp.heap)]
             ELSE LET h == set_matrix_dimensions(
                               cp.heap, cp.ref,
                               cp.heap[obj.kernel_pattern].bounds,
                               scs.xdensity, scs.ydensity)
                  IN  [raised |-> "none",
                       self |-> [obj EXCEPT !.kernel = Composite(h[cp.ref], scs)],
                       patterns |-> Live(h)]

(***************************************************************************)
(* Inputs                                                                  *)
(***************************************************************************)
\* The array of shape (R, C) that is v at (r0, c0) and zero elsewhere.
Impulse(R, C, r0, c0, v) ==
    MkArray(R, C, [m \in 1..(R * C) |->
                     IF RowOf(m, C) = r0 /\ ColOf(m, C) = c0
                     THEN [n |-> v, d |-> 1] ELSE Zero])

\* The array of shape (R, C) whose elements are 1, 2, 3, ... in row-major
\* order: no two elements are equal.
Ramp(R, C) == MkArray(R, C, [m \in 1..(R * C) |-> [n |-> m, d |-> 1]])

\* a + b, element-wise, for arrays of one shape.
ArrayAdd(a, b) ==
    MkArray(a.rows, a.cols, [m \in DOMAIN a.data |-> FAdd(a.data[m], b.data[m])])

\* The fields of shape (R, C) the call is checked on: every unit impulse,
\* and the ramp.
FieldInputs(R, C) ==
    {Impulse(R, C, i[1], i[2], 1) : i \in Idx(R, C)} \cup {Ramp(R, C)}

\* The kernel arrays of shape (R, C) the call is checked on: every impulse
\* of height -1 or 1..MaxVal, and every such positive impulse with a tap of
\* -1 on the cell to its right or below it (circularly); their masses are
\* -1..MaxVal, zero included.
KernelInputs(R, C) ==
    {Impulse(R, C, i[1], i[2], v) : i \in Idx(R, C), v \in (-1..MaxVal) \ {0}}
        \cup
    {ArrayAdd(Impulse(R, C, i[1], i[2], v),
              Impulse(R, C, (i[1] + o[1]) % R, (i[2] + o[2]) % C, -1)) :
        i \in Idx(R, C), o \in {<<0, 1>>, <<1, 0>>}, v \in 1..MaxVal}

\* Sheet coordinate systems over the unit sheet.
SCSInputs == {[bounds |-> "unit", xdensity |-> xd, ydensity |-> yd] :
              xd \in SheetDims, yd \in SheetDims}

\* The keyword arguments initialize is called with: none, SCS=None, or a
\* sheet coordinate system.
KwargsInputs == {<<>>} \cup {[SCS |-> s] : s \in {None} \cup SCSInputs}

(***************************************************************************)
(* State                                                                   *)
(***************************************************************************)
VARIABLES
    self,       \* the Convolve instance: its attributes kernel, kernel_pattern
    patterns,   \* the pattern objects, by reference; "p0" is the caller's
    fields,     \* the caller's array objects, by reference: whoever holds
                \* the reference ref sees fields[ref]; "b" starts as a copy
                \* of "a"
    lastOp,     \* the last operation called
    raised,     \* the exception it raised, "none" if it returned
    xarg,       \* the reference passed to the last call of self(x)
    ncalls,     \* the number of calls of self(x) so far
    lastIn,     \* the field contents passed to the last call that returned
    lastOut     \* the contents that call left in the field

vars == <<self, patterns, fields, lastOp, raised, xarg, ncalls, lastIn, lastOut>>

\* Convolve.__init__: self.kernel = None.
Construct == [kernel |-> None, kernel_pattern |-> "p0"]

Init ==
    /\ self = Construct
    /\ \E g \in Gens :
          patterns = [r \in {"p0"} |->
                         [gen |-> g, bounds |-> "unit", xdensity |-> 1, ydensity |-> 1]]
    /\ \E R \in SheetDims, C \in SheetDims :
          \E x \in {Impulse(R, C, 0, 0, 1), Ramp(R, C)} :
             fields = [r \in FieldRefs |-> x]
    /\ lastOp = "construct"
    /\ raised = "none"
    /\ xarg = "a"
    /\ ncalls = 0
    /\ lastIn = None
    /\ lastOut = None

\* The caller runs self.initialize(**kwargs).
Initialize(kwargs) ==
    LET res == ConvolveInitialize(self, patterns, kwargs)
    IN  /\ self' = res.self
        /\ patterns' = res.patterns
        /\ raised' = res.raised
        /\ lastOp' = "initialize"
        /\ lastIn' = (IF res.raised = "none" THEN None ELSE lastIn)
        /\ lastOut' = (IF res.raised = "none" THEN None ELSE lastOut)
        /\ UNCHANGED <<fields, xarg, ncalls>>

\* The caller runs self(x) on the array object at ref.
Call(ref) ==
    /\ ncalls < MaxCalls
    /\ LET res == ConvolveCall(self, fields, ref)
       IN  /\ self' = res.self
           /\ fields' = res.heap
           /\ raised' = res.raised
           /\ lastIn' = (IF res.raised = "none" THEN fields[ref] ELSE lastIn)
    /\ lastOut' = (IF raised' = "none" THEN fields'[ref] ELSE lastOut)
    /\ lastOp' = "call"
    /\ xarg' = ref
    /\ ncalls' = ncalls + 1
    /\ UNCHANGED patterns

\* The caller changes its kernel specification to another family.
MutatePattern(g) ==
    /\ g # patterns["p0"].gen
    /\ patterns' = [patterns EXCEPT !["p0"].gen = g]
    /\ lastOp' = "mutate"
    /\ raised' = "none"
    /\ UNCHANGED <<self, fields, xarg, ncalls, lastIn, lastOut>>

Next ==
    \/ \E kwargs \in KwargsInputs : Initialize(kwargs)
    \/ \E ref \in FieldRefs : Call(ref)
    \/ \E g \in Gens : MutatePattern(g)

Spec == Init /\ [][Next]_vars

(***************************************************************************)
(* The call on its own: an operator prepared with any kernel array,        *)
(* applied once to any field of the kernel's shape.                        *)
(***************************************************************************)
InitConv ==
    /\ \E R \in Dims, C \in Dims :
          /\ \E k \in KernelInputs(R, C) :
                self = [kernel |-> k, kernel_pattern |-> "p0"]
          /\ \E x \in FieldInputs(R, C) :
                fields = [r \in FieldRefs |-> x]
    /\ patterns = [r \in {"p0"} |->
                      [gen |-> "blur", bounds |-> "unit", xdensity |-> 1, ydensity |-> 1]]
    /\ lastOp = "initialize"
    /\ raised = "none"
    /\ xarg = "a"
    /\ ncalls = 0
    /\ lastIn = None
    /\ lastOut = None

NextConv == ncalls = 0 /\ Call("a")

SpecConv == InitConv /\ [][NextConv]_vars

(***************************************************************************)
(* Properties                                                              *)
(***************************************************************************)
\* The last operation was a call of self(x) that returned.
Returned == lastOp = "call" /\ raised = "none"

\* The kernel is 1 at (rows // 2, cols // 2) and 0 everywhere else.
IsCenterImpulse(k) ==
    \A r \in 0..(k.rows - 1), c \in 0..(k.cols - 1) :
        At(k, r, c) = (IF r = k.rows \div 2 /\ c = k.cols \div 2 THEN One ELSE Zero)

\* The array is 1 at (r0, c0) and 0 everywhere else.
IsUnitImpulseAt(x, r0, c0) ==
    \A r \in 0..(x.rows - 1), c \in 0..(x.cols - 1) :
        At(x, r, c) = (IF r = r0 /\ c = c0 THEN One ELSE Zero)

\* C1: on an operator whose preparation never succeeded (self.kernel is
\* still None), a call raises the "not initialized" error and leaves the
\* passed field as it was.
C1_UninitializedCallRaisesNotInitialized ==
    [][(self.kernel = None /\ lastOp' = "call")
          => (raised' = "NotInitialized" /\ fields' = fields)]_vars

\* What the code does there: the call fails inside the transform of the
\* kernel, and the field is untouched.
UninitializedCallFailsInTransform ==
    [][(self.kernel = None /\ lastOp' = "call")
          => (raised' = "FFTError" /\ fields' = fields)]_vars

\* C2: with a kernel that is a unit impulse at the centre index
\* (R // 2, C // 2), a call leaves every element of the field equal to its
\* value before the call, for even and odd R and C.
C2_IdentityKernel ==
    (Returned /\ IsCenterImpulse(self.kernel)) => fields[xarg] = lastIn

C2_Witness ==
    /\ Returned
    /\ IsCenterImpulse(self.kernel)
    /\ shape(self.kernel) = <<3, 4>>
    /\ lastIn = Ramp(3, 4)

\* C3: with a kernel K of sum 1, a call on the field that is 1 at (r0, c0)
\* and 0 elsewhere leaves out[r, c] = K[(r - r0 + R // 2) mod R,
\* (c - c0 + C // 2) mod C]: the kernel's centre cell lands on (r0, c0).
C3_Centering ==
    (Returned /\ ArraySum(self.kernel) = One) =>
        \A r0 \in 0..(lastIn.rows - 1), c0 \in 0..(lastIn.cols - 1) :
            IsUnitImpulseAt(lastIn, r0, c0) =>
                \A r \in 0..(lastIn.rows - 1), c \in 0..(lastIn.cols - 1) :
                    At(fields[xarg], r, c) =
                        At(self.kernel,
                           (r - r0 + lastIn.rows \div 2) % lastIn.rows,
                           (c - c0 + lastIn.cols \div 2) % lastIn.cols)

C3_Witness ==
    /\ Returned
    /\ ArraySum(self.kernel) = One
    /\ ~IsCenterImpulse(self.kernel)
    /\ At(self.kernel, 0, 1) = [n |-> 2, d |-> 1]
    /\ At(self.kernel, 1, 1) = [n |-> -1, d |-> 1]
    /\ shape(self.kernel) = <<3, 4>>
    /\ IsUnitImpulseAt(lastIn, 2, 3)

\* C4: with a kernel of non-zero sum, the sum of the field's elements after
\* a call equals their sum before it.
C4_MassPreserved ==
    (Returned /\ ArraySum(self.kernel) # Zero) =>
        ArraySum(fields[xarg]) = ArraySum(lastIn)

C4_Witness ==
    /\ Returned
    /\ ArraySum(self.kernel) = [n |-> 2, d |-> 1]
    /\ lastIn = Ramp(3, 3)
    /\ fields[xarg] # lastIn

\* C5: initialize leaves the caller's kernel specification as it was (it
\* works on a copy), and a change of that specification leaves the stored
\* kernel as it was.
C5_NonAliasing ==
    [][/\ lastOp' = "initialize" => patterns'["p0"] = patterns["p0"]
       /\ lastOp' = "mutate" => self'.kernel = self.kernel]_vars

C5_Witness ==
    /\ lastOp = "mutate"
    /\ self.kernel # None
    /\ patterns["p0"].gen = "edge"
    /\ patterns["p0"].xdensity = 1
    /\ self.kernel = Composite([gen |-> "blur"],
                               [xdensity |-> 3, ydensity |-> 2])

\* C6: a call that returns has written the normalized result into the array
\* object it was passed, which keeps its shape; no array object is added,
\* and every other array object is as it was.
C6_InPlace ==
    [][(lastOp' = "call" /\ raised' = "none") =>
          /\ DOMAIN fields' = DOMAIN fields
          /\ shape(fields'[xarg']) = shape(fields[xarg'])
          /\ fields'[xarg'].data = Convolved(self.kernel, fields[xarg']).data
          /\ \A ref \in FieldRefs \ {xarg'} : fields'[ref] = fields[ref]]_vars

C6_Witness ==
    /\ Returned
    /\ xarg = "a"
    /\ ncalls = 1
    /\ AllFinite(fields["a"])
    /\ fields["a"] # fields["b"]
    /\ fields["b"] = lastIn

\* C7: the operator has no kernel from construction until the first
\* initialize that returns, and has one in every state after it; nothing
\* takes the kernel away again, and a call returns only with a kernel.
C7_Lifecycle ==
    /\ self.kernel = None
    /\ [][/\ self.kernel # None => self'.kernel # None
          /\ (self.kernel = None /\ self'.kernel # None)
                => (lastOp' = "initialize" /\ raised' = "none")
          /\ (lastOp' = "initialize" /\ raised' = "none") => self'.kernel # None
          /\ (lastOp' = "call" /\ raised' = "none") => self.kernel # None]_vars

C7_Witness ==
    /\ lastOp = "initialize"
    /\ raised = "none"
    /\ ncalls = MaxCalls
    /\ self.kernel # None
    /\ lastIn = None

\* C8: with a kernel whose elements sum to zero, a call raises an error and
\* leaves no inf or nan in the field.
C8_ZeroMassKernelIsAnError ==
    (/\ lastOp = "call"
     /\ self.kernel # None
     /\ shape(self.kernel) = shape(fields[xarg])
     /\ ArraySum(self.kernel) = Zero)
        => (raised # "none" /\ AllFinite(fields[xarg]))

\* C9: a call leaves the instance, and so the stored kernel, as it was; and
\* a call on a field equal to the one passed to the last call that returned
\* since the last initialize leaves in it what that call left.
C9_CallLeavesKernel ==
    [][lastOp' = "call" =>
          /\ self' = self
          /\ (raised' = "none" /\ lastIn # None /\ fields[xarg'] = lastIn)
                => fields'[xarg'] = lastOut]_vars

C9_Witness ==
    /\ Returned
    /\ ncalls = 2
    /\ xarg = "b"
    /\ fields["a"] = fields["b"]
    /\ lastOut = fields["b"]
    /\ lastIn # lastOut
    /\ AllFinite(lastOut)

\* C10: initialize without a sheet coordinate system raises an error, and
\* an initialize that raises leaves the instance, and so the stored kernel
\* or its absence, as it was.
C10_FailedInitializeKeepsKernel ==
    /\ [](\A kwargs \in KwargsInputs :
             "SCS" \notin DOMAIN kwargs =>
                 /\ ConvolveInitialize(self, patterns, kwargs).raised # "none"
                 /\ ConvolveInitialize(self, patterns, kwargs).self = self)
    /\ [][(lastOp' = "initialize" /\ raised' # "none") => self' = self]_vars

C10_Witness ==
    /\ lastOp = "initialize"
    /\ raised = "Exception"
    /\ self.kernel # None
    /\ ncalls = 1

====
